---- MODULE Spec2Model ----
(***************************************************************************)
(* Model of custom_components/discogs_enhanced/sensor.py: the platform     *)
(* setup that builds the shared discogs_data snapshot, and the sensors     *)
(* (DiscogsSensor) that the host polls.                                    *)
(*                                                                         *)
(* Python values are tagged records: [t |-> "None"], [t |-> "str", s |->   *)
(* <<characters>>], [t |-> "int", n |-> ..], [t |-> "list", l |-> <<..>>], *)
(* [t |-> "float", ..].  A dict is [t |-> "dict", d |-> r], r a record over  *)
(* the keys the code reads, a key the dict lacks being mapped to Absent.   *)
(***************************************************************************)
EXTENDS Integers, Sequences, FiniteSets, TLC

VARIABLES
    pc,                 \* "init" before setup_platform, then "done" or "aborted"
    discogs_data,       \* the snapshot dict built by setup_platform
    entities,           \* the list handed to add_entities (sensor keys, in order)
    add_entities_calls, \* how many times add_entities was called
    sensors,            \* sensor key -> [native_value, attrs] (DiscogsSensor fields)
    escaped,            \* exception that escaped the last operation to the host
    logged,             \* <<level, source line>> of the log records of the last operation
    calls,              \* remote calls made by the last operation, per kind
    setup_in,           \* what setup_platform's remote calls and config gave
    last,               \* the last poll and the remote outcome it met
    fetched             \* the item data the random-record fetches have returned

vars == <<pc, discogs_data, entities, add_entities_calls, sensors, escaped,
          logged, calls, setup_in, last, fetched>>

----------------------------------------------------------------------------
(* Python values *)

PyNone == [t |-> "None"]
Absent == [t |-> "absent"]
PyStr(s) == [t |-> "str", s |-> s]
PyInt(n) == [t |-> "int", n |-> n]
PyList(l) == [t |-> "list", l |-> l]
PyDict(d) == [t |-> "dict", d |-> d]

IsStr(v) == v.t = "str"

\* Python truth value of a value the code tests with "if v" / "a and b".
Truthy(v) ==
    CASE v.t = "None" -> FALSE
      [] v.t = "absent" -> FALSE
      [] v.t = "str" -> v.s # <<>>
      [] v.t = "int" -> v.n # 0
      [] v.t = "list" -> v.l # <<>>
      [] v.t = "dict" -> \E k \in DOMAIN v.d : v.d[k] # Absent
      [] OTHER -> TRUE

\* dict.get(key, default) on a dict modelled as a record with Absent entries.
Get(d, key, default) == IF d.d[key] = Absent THEN default ELSE d.d[key]

Range(f) == {f[i] : i \in DOMAIN f}

\* {} as the data dict of a release.
EmptyDict ==
    PyDict([ formats |-> Absent, labels |-> Absent, artists |-> Absent,
             title |-> Absent, year |-> Absent, cover_image |-> Absent ])

----------------------------------------------------------------------------
(* Constants of the source *)

SENSOR_COLLECTION_TYPE == "collection"
SENSOR_WANTLIST_TYPE == "wantlist"
SENSOR_RANDOM_RECORD_TYPE == "random_record"
SENSOR_COLLECTION_VALUE_MIN_TYPE == "collection_value_min"
SENSOR_COLLECTION_VALUE_MEDIAN_TYPE == "collection_value_median"
SENSOR_COLLECTION_VALUE_MAX_TYPE == "collection_value_max"
SENSOR_VINYL_COUNT_TYPE == "vinyl_count"
SENSOR_CD_COUNT_TYPE == "cd_count"

\* The keys of SENSOR_TYPES, in its order.
SENSOR_KEYS ==
    << SENSOR_COLLECTION_TYPE, SENSOR_WANTLIST_TYPE, SENSOR_RANDOM_RECORD_TYPE,
       SENSOR_COLLECTION_VALUE_MIN_TYPE, SENSOR_COLLECTION_VALUE_MEDIAN_TYPE,
       SENSOR_COLLECTION_VALUE_MAX_TYPE, SENSOR_VINYL_COUNT_TYPE,
       SENSOR_CD_COUNT_TYPE >>

VALUE_KEYS ==
    { SENSOR_COLLECTION_VALUE_MIN_TYPE, SENSOR_COLLECTION_VALUE_MEDIAN_TYPE,
      SENSOR_COLLECTION_VALUE_MAX_TYPE }

ZeroStr == PyStr(<<"0", ".", "0", "0">>)
DollarStr == PyStr(<<"$">>)
UnknownStr == PyStr(<<"Unknown">>)

\* str.lower() on the letters the model's format names are written with.
LowerChar(c) ==
    CASE c = "V" -> "v" [] c = "I" -> "i" [] c = "N" -> "n" [] c = "Y" -> "y"
      [] c = "L" -> "l" [] c = "C" -> "c" [] c = "D" -> "d" [] c = "S" -> "s"
      [] OTHER -> c

Lower(s) == [i \in 1..Len(s) |-> LowerChar(s[i])]

----------------------------------------------------------------------------
(* setup_platform *)

\* The result of one run of setup_platform's remote calls and its config:
\*   failLine, failKind   the source line inside the outer try (158-211) at
\*                        which an exception the inner try does not catch is
\*                        raised (0: none), and its class
\*   name, folders, num_collection, num_wantlist, curr_attr, data
\*                        what the identity object answers
\*   value_outcome, body  the outcome of the collection-value GET and the
\*                        value response.json() returns
\*   walkAfter, walkKind  the number of items the walk over the first
\*                        folder's releases yields before it raises (-1: it
\*                        does not raise), and the class of the exception
\*   monitored            config[CONF_MONITORED_CONDITIONS]
\* A folder is [count |-> n, releases |-> <<item data dicts>>].

\* Lines 132-154: the snapshot with its defaults.
InitialData ==
    [ user |-> UnknownStr,
      folders |-> <<>>,
      collection_count |-> 0,
      wantlist_count |-> 0,
      collection_value_min |-> ZeroStr,
      collection_value_median |-> ZeroStr,
      collection_value_max |-> ZeroStr,
      currency_symbol |-> DollarStr,
      vinyl_count |-> 0,
      cd_count |-> 0 ]

\* The statement at `line` of the outer try ran to its end.
Reached(in, line) == in.failLine = 0 \/ in.failLine > line

\* Lines 169-175: the currency symbol.
CurrencySymbol(in) ==
    IF in.curr_attr # Absent /\ Truthy(in.curr_attr)
    THEN in.curr_attr
    ELSE IF in.data # Absent /\ in.data.t = "dict"
            /\ in.data.d["curr_abbr"] # Absent /\ Truthy(in.data.d["curr_abbr"])
         THEN in.data.d["curr_abbr"]
         ELSE DollarStr

\* Lines 182-206: the three value strings the inner try leaves in the locals.
ValueStrings(in) ==
    IF in.value_outcome = "ok" /\ Truthy(in.body) /\ in.body.t = "dict"
    THEN [ min |-> Get(in.body, "minimum", ZeroStr),
           median |-> Get(in.body, "median", ZeroStr),
           max |-> Get(in.body, "maximum", ZeroStr) ]
    ELSE [ min |-> ZeroStr, median |-> ZeroStr, max |-> ZeroStr ]

\* Lines 158-211: the snapshot when the outer try is left.
FetchPhase(in) ==
    [ InitialData EXCEPT
        !.user = IF Reached(in, 164) THEN in.name ELSE @,
        !.folders = IF Reached(in, 165) THEN in.folders ELSE @,
        !.collection_count = IF Reached(in, 166) THEN in.num_collection ELSE @,
        !.wantlist_count = IF Reached(in, 167) THEN in.num_wantlist ELSE @,
        !.currency_symbol = IF Reached(in, 176) THEN CurrencySymbol(in) ELSE @,
        !.collection_value_min = IF Reached(in, 209) THEN ValueStrings(in).min ELSE @,
        !.collection_value_median = IF Reached(in, 210) THEN ValueStrings(in).median ELSE @,
        !.collection_value_max = IF Reached(in, 211) THEN ValueStrings(in).max ELSE @ ]

\* The handler of lines 213-215 without its return.
AbortedNever(in) == FALSE

\* Lines 213-215: the client library's HTTPError ends setup_platform.
Aborted(in) == in.failLine # 0 /\ in.failKind = "HTTPError"

\* The comparison of lines 239-241 without lower().
FormatClassExact(item) ==
    LET formats == Get(item, "formats", PyList(<<>>))
        name == IF Truthy(formats) THEN Get(formats.l[1], "name", PyNone) ELSE PyNone
    IN  IF Truthy(formats) /\ Truthy(name)
        THEN IF name.s = <<"v", "i", "n", "y", "l">> THEN "vinyl"
             ELSE IF name.s = <<"c", "d">> THEN "cd"
             ELSE "none"
        ELSE "none"

\* Lines 234-242: the counter one item adds to ("vinyl", "cd" or "none").
FormatClass(item) ==
    LET formats == Get(item, "formats", PyList(<<>>))
        name == IF Truthy(formats) THEN Get(formats.l[1], "name", PyNone) ELSE PyNone
    IN  IF Truthy(formats) /\ Truthy(name)
        THEN IF Lower(name.s) = <<"v", "i", "n", "y", "l">> THEN "vinyl"
             ELSE IF Lower(name.s) = <<"c", "d">> THEN "cd"
             ELSE "none"
        ELSE "none"

\* Lines 227-242: current_vinyl_count and current_cd_count after the loop has
\* taken the first n items.
RECURSIVE CountFormats(_, _)
CountFormats(items, n) ==
    IF n = 0
    THEN [vinyl |-> 0, cd |-> 0]
    ELSE LET acc == CountFormats(items, n - 1)
             c == FormatClass(items[n])
         IN  [ vinyl |-> IF c = "vinyl" THEN acc.vinyl + 1 ELSE acc.vinyl,
               cd |-> IF c = "cd" THEN acc.cd + 1 ELSE acc.cd ]

\* Line 221: the format-count block is entered.
WalkEntered(in) == Reached(in, 160) /\ FetchPhase(in).collection_count > 0

\* Line 231: the walk over main_folder.releases is started.
WalkStarted(in) == WalkEntered(in) /\ FetchPhase(in).folders # <<>>

\* The walk raises after in.walkAfter items.
WalkFails(in) ==
    /\ WalkStarted(in)
    /\ in.walkAfter >= 0
    /\ in.walkAfter <= Len(FetchPhase(in).folders[1].releases)

\* The format-count block writing its counters into the snapshot inside the
\* loop, so that a walk that raises leaves the counts of the items it took.
FormatCountsInPlace(in) ==
    LET data == FetchPhase(in)
    IN  IF WalkStarted(in)
        THEN LET items == data.folders[1].releases
                 n == CountFormats(items, IF WalkFails(in) THEN in.walkAfter ELSE Len(items))
             IN  [data EXCEPT !.vinyl_count = n.vinyl, !.cd_count = n.cd]
        ELSE data

\* Lines 220-256: the snapshot after the format-count block.
FormatCounts(in) ==
    LET data == FetchPhase(in)
    IN  IF WalkStarted(in) /\ ~WalkFails(in)
        THEN LET items == data.folders[1].releases
                 n == CountFormats(items, Len(items))
             IN  [data EXCEPT !.vinyl_count = n.vinyl, !.cd_count = n.cd]
        ELSE data

\* One sensor per entry of monitored_conditions, a repeated entry included.
EntitiesPerEntry(monitored) == monitored

\* Lines 260-265: one sensor per description of SENSOR_TYPES whose key is
\* monitored.
Entities(monitored) ==
    SelectSeq(SENSOR_KEYS, LAMBDA key : key \in Range(monitored))

\* Lines 287-293 and SensorEntity's _attr_native_value default.
NewSensor == [native_value |-> PyNone, attrs |-> EmptyDict]

\* The log records of setup_platform above debug level.
SetupLog(in) ==
    (IF in.failLine = 0 THEN {}
     ELSE IF in.failKind = "HTTPError" THEN {<<"error", 214>>}
     ELSE {<<"exception", 217>>})
    \cup (IF Reached(in, 175) /\ CurrencySymbol(in) = DollarStr
          THEN {<<"warning", 175>>} ELSE {})
    \cup (IF ~Reached(in, 206) THEN {}
          ELSE IF in.value_outcome = "RequestException" THEN {<<"warning", 204>>}
          ELSE IF in.value_outcome = "JSONDecodeError" THEN {<<"warning", 206>>}
          ELSE IF Truthy(in.body) /\ in.body.t = "dict" THEN {<<"info", 193>>}
          ELSE {<<"info", 193>>, <<"warning", 201>>})
    \cup (IF Aborted(in) \/ ~WalkEntered(in) THEN {}
          ELSE IF ~WalkStarted(in) THEN {<<"warning", 251>>}
          ELSE IF ~WalkFails(in) THEN {<<"info", 244>>}
          ELSE IF in.walkKind = "HTTPError" THEN {<<"error", 254>>}
          ELSE {<<"exception", 256>>})

\* The remote calls setup_platform makes.
SetupCalls(in) ==
    [ identity |-> 1,
      value |-> IF Reached(in, 187) \/ in.failLine = 188 THEN 1 ELSE 0,
      walk |-> IF ~Aborted(in) /\ WalkStarted(in) THEN 1 ELSE 0,
      random |-> 0 ]

NoCalls == [identity |-> 0, value |-> 0, walk |-> 0, random |-> 0]

\* Lines 118-267.
Setup(in) ==
    /\ pc = "init"
    /\ setup_in' = in
    /\ UNCHANGED <<last, fetched>>
    /\ escaped' = "none"
    /\ logged' = SetupLog(in)
    /\ calls' = SetupCalls(in)
    /\ IF Aborted(in)
       THEN /\ pc' = "aborted"
            /\ discogs_data' = FetchPhase(in)
            /\ UNCHANGED <<entities, add_entities_calls, sensors>>
       ELSE /\ pc' = "done"
            /\ discogs_data' = FormatCounts(in)
            /\ entities' = Entities(in.monitored)
            /\ add_entities_calls' = add_entities_calls + 1
            /\ sensors' = [key \in Range(Entities(in.monitored)) |-> NewSensor]

Init ==
    /\ pc = "init"
    /\ discogs_data = InitialData
    /\ entities = <<>>
    /\ add_entities_calls = 0
    /\ sensors = <<>>
    /\ escaped = "none"
    /\ logged = {}
    /\ calls = NoCalls
    /\ setup_in = [failLine |-> -1]
    /\ last = [op |-> "none"]
    /\ fetched = {}

----------------------------------------------------------------------------
(* Arithmetic of Python floats (IEEE 754 binary64, round to nearest even) *)
(* on natural numbers held as little-endian sequences of limbs.            *)

LimbBits == 15
LimbBase == 2 ^ LimbBits
MantissaBits == 53

RECURSIVE BigTrim(_)
BigTrim(a) ==
    IF a # <<>> /\ a[Len(a)] = 0 THEN BigTrim(SubSeq(a, 1, Len(a) - 1)) ELSE a

\* a * c + carry, for 0 <= c, carry <= LimbBase.
RECURSIVE BigMulAdd(_, _, _)
BigMulAdd(a, c, carry) ==
    IF a = <<>>
    THEN IF carry = 0 THEN <<>>
         ELSE <<carry % LimbBase>> \o BigMulAdd(<<>>, c, carry \div LimbBase)
    ELSE LET t == a[1] * c + carry
         IN  <<t % LimbBase>> \o BigMulAdd(Tail(a), c, t \div LimbBase)

\* Quotient (limbs i..Len(a)) and remainder of a by d, for 0 < d <= LimbBase.
RECURSIVE BigDivFrom(_, _, _)
BigDivFrom(a, i, d) ==
    IF i > Len(a)
    THEN [q |-> <<>>, r |-> 0]
    ELSE LET hi == BigDivFrom(a, i + 1, d)
             cur == hi.r * LimbBase + a[i]
         IN  [q |-> <<cur \div d>> \o hi.q, r |-> cur % d]

BigDiv(a, d) ==
    LET x == BigDivFrom(a, 1, d) IN [q |-> BigTrim(x.q), r |-> x.r]

RECURSIVE BitsOf(_)
BitsOf(n) == IF n = 0 THEN 0 ELSE 1 + BitsOf(n \div 2)

BigBitLen(a) ==
    IF a = <<>> THEN 0 ELSE LimbBits * (Len(a) - 1) + BitsOf(a[Len(a)])

\* a divided by 2^n, with the flag "a nonzero bit was shifted out".
RECURSIVE BigShiftRight(_, _, _)
BigShiftRight(a, n, sticky) ==
    IF n = 0
    THEN [v |-> a, sticky |-> sticky]
    ELSE LET c == IF n < LimbBits THEN n ELSE LimbBits
             x == BigDiv(a, 2 ^ c)
         IN  BigShiftRight(x.q, n - c, sticky \/ x.r # 0)

\* a * 2^n.
RECURSIVE BigShiftLeft(_, _)
BigShiftLeft(a, n) ==
    IF n = 0 THEN a
    ELSE LET c == IF n < LimbBits THEN n ELSE LimbBits
         IN  BigShiftLeft(BigMulAdd(a, 2 ^ c, 0), n - c)

FloatZero == [t |-> "float", m |-> <<>>, e |-> 0]

\* The binary64 nearest to (v + fraction) * 2^e, ties to even, where
\* `sticky` says the fraction (below one unit of v) is not zero; v > 0 has
\* more than MantissaBits + 1 bits.  The result is m * 2^e with
\* 2^52 <= m < 2^53.
RoundToFloat(v, sticky, e) ==
    LET shift == BigBitLen(v) - MantissaBits
        x == BigShiftRight(v, shift - 1, sticky)
        guard == x.v[1] % 2 = 1
        q == BigDiv(x.v, 2).q
        up == guard /\ (x.sticky \/ q[1] % 2 = 1)
        m == IF up THEN BigMulAdd(q, 1, 1) ELSE q
    IN  IF BigBitLen(m) > MantissaBits
        THEN [t |-> "float", m |-> BigDiv(m, 2).q, e |-> e + shift + 1]
        ELSE [t |-> "float", m |-> m, e |-> e + shift]

\* x * 1000.0
FloatTimes1000(x) ==
    IF x.m = <<>> THEN x ELSE RoundToFloat(BigMulAdd(x.m, 1000, 0), FALSE, x.e)

\* x / 1000.0
FloatOver1000(x) ==
    IF x.m = <<>> THEN x
    ELSE LET d == BigDiv(BigShiftLeft(x.m, LimbBits), 1000)
         IN  RoundToFloat(d.q, d.r # 0, x.e - LimbBits)

DigitChars == {"0", "1", "2", "3", "4", "5", "6", "7", "8", "9"}

DigitValue(c) ==
    CASE c = "0" -> 0 [] c = "1" -> 1 [] c = "2" -> 2 [] c = "3" -> 3
      [] c = "4" -> 4 [] c = "5" -> 5 [] c = "6" -> 6 [] c = "7" -> 7
      [] c = "8" -> 8 [] c = "9" -> 9

\* The number a string of digits writes.
RECURSIVE BigOfDigits(_)
BigOfDigits(ds) ==
    IF ds = <<>> THEN <<>>
    ELSE BigTrim(BigMulAdd(BigOfDigits(SubSeq(ds, 1, Len(ds) - 1)), 10,
                           DigitValue(ds[Len(ds)])))

\* v / 10^k, with the flag "the division left a remainder".
RECURSIVE BigOverPow10(_, _, _)
BigOverPow10(v, k, sticky) ==
    IF k = 0 THEN [v |-> v, sticky |-> sticky]
    ELSE LET x == BigDiv(v, 10) IN BigOverPow10(x.q, k - 1, sticky \/ x.r # 0)

\* float() accepts a string of digits and '.' when it has a digit and at
\* most one '.'.
FloatAccepts(s) ==
    /\ Cardinality({i \in 1..Len(s) : s[i] = "."}) <= 1
    /\ \E i \in 1..Len(s) : s[i] \in DigitChars

\* float(s) for such a string: the binary64 nearest to n / 10^k, n the
\* digits of s and k the number of digits after the '.'.
FloatOf(s) ==
    LET digits == SelectSeq(s, LAMBDA c : c \in DigitChars)
        dot == IF \E i \in 1..Len(s) : s[i] = "."
               THEN CHOOSE i \in 1..Len(s) : s[i] = "." ELSE Len(s) + 1
        k == IF dot > Len(s) THEN 0 ELSE Len(s) - dot
        n == BigOfDigits(digits)
        scale == LimbBits * (5 + k)
        x == BigOverPow10(BigShiftLeft(n, scale), k, FALSE)
    IN  IF n = <<>> THEN FloatZero ELSE RoundToFloat(x.v, x.sticky, -scale)

----------------------------------------------------------------------------
(* DiscogsSensor *)

\* Line 390: value_str.replace(',', '') and then re.sub(r'[^\d.]', '', ..).
CleanValue(s) ==
    LET replaced == SelectSeq(s, LAMBDA c : c # ",")
    IN  SelectSeq(replaced, LAMBDA c : c \in DigitChars \/ c = ".")

\* Lines 374-411: the native value and the log records of a value sensor
\* whose snapshot entry is value_str.
ValueUpdate(value_str) ==
    IF IsStr(value_str) /\ Truthy(value_str)
    THEN LET numeric_value_str == CleanValue(value_str.s)
         IN  IF numeric_value_str # <<>>
             THEN IF FloatAccepts(numeric_value_str)
                  THEN [ value |-> FloatOver1000(FloatTimes1000(FloatOf(numeric_value_str))),
                         log |-> {<<"info", 403>>} ]
                  ELSE [value |-> PyNone, log |-> {<<"error", 406>>}]
             ELSE [value |-> PyNone, log |-> {}]
    ELSE [value |-> PyNone, log |-> {}]

\* str(v) as an f-string formats it.
FormatText(v) == IF IsStr(v) THEN v.s ELSE <<"None">>

\* Lines 341-356: get_random_record of a sensor whose cached attributes are
\* attrs, when random.randrange draws random_index and the fetch of that
\* release ends as `fetch` ("ok" or the exception it raises).
GetRandomRecord(attrs, random_index, fetch) ==
    IF discogs_data.folders # <<>> /\ discogs_data.folders[1].count > 0
    THEN LET collection == discogs_data.folders[1]
         IN  IF fetch # "ok"
             THEN [raised |-> fetch, value |-> PyNone, attrs |-> attrs, called |-> 1]
             ELSE IF random_index >= Len(collection.releases)
             THEN [raised |-> "IndexError", value |-> PyNone, attrs |-> attrs, called |-> 1]
             ELSE LET data == collection.releases[random_index + 1]
                      artists == Get(data, "artists", PyNone)
                      artist_name == IF Truthy(artists)
                                     THEN Get(artists.l[1], "name", PyNone)
                                     ELSE PyStr(<<"Unknown Artist">>)
                      title == Get(data, "title", PyStr(<<"Unknown Title">>))
                  IN  [ raised |-> "none",
                        value |-> PyStr(FormatText(artist_name) \o <<" - ">>
                                        \o FormatText(title)),
                        attrs |-> data,
                        called |-> 1 ]
    ELSE [raised |-> "none", value |-> PyNone, attrs |-> attrs, called |-> 0]

\* Lines 358-413: what update() of the sensor `key` does: the exception it
\* lets escape ("none": it returns), the sensor's fields and the log records.
UpdateResult(key, random_index, fetch) ==
    LET self == sensors[key]
    IN  CASE key = SENSOR_COLLECTION_TYPE ->
               [ raised |-> "none", called |-> 0, log |-> {}, attrs |-> self.attrs,
                 value |-> PyInt(discogs_data.collection_count) ]
          [] key = SENSOR_WANTLIST_TYPE ->
               [ raised |-> "none", called |-> 0, log |-> {}, attrs |-> self.attrs,
                 value |-> PyInt(discogs_data.wantlist_count) ]
          [] key = SENSOR_VINYL_COUNT_TYPE ->
               [ raised |-> "none", called |-> 0, log |-> {}, attrs |-> self.attrs,
                 value |-> PyInt(discogs_data.vinyl_count) ]
          [] key = SENSOR_CD_COUNT_TYPE ->
               [ raised |-> "none", called |-> 0, log |-> {}, attrs |-> self.attrs,
                 value |-> PyInt(discogs_data.cd_count) ]
          [] key \in VALUE_KEYS ->
               LET r == ValueUpdate(discogs_data[key])
               IN  [ raised |-> "none", called |-> 0, log |-> r.log,
                     attrs |-> self.attrs, value |-> r.value ]
          [] OTHER ->
               LET r == GetRandomRecord(self.attrs, random_index, fetch)
               IN  [ raised |-> r.raised, called |-> r.called, log |-> {},
                     attrs |-> r.attrs,
                     value |-> IF r.raised = "none" THEN r.value ELSE self.native_value ]

\* A poll of the random-record sensor that writes the first folder's item
\* count back into the snapshot's collection count.
SnapshotAfterUpdateRecount(key) ==
    IF key = SENSOR_RANDOM_RECORD_TYPE /\ discogs_data.folders # <<>>
    THEN [discogs_data EXCEPT !.collection_count = discogs_data.folders[1].count + 1]
    ELSE discogs_data

\* Lines 341-413: update() and get_random_record() read self._discogs_data
\* and assign only self._attr_native_value and self._attrs.
SnapshotAfterUpdate(key) == discogs_data

\* One poll of the sensor `key` by the host: DiscogsSensor.update.
Update(key, random_index, fetch) ==
    LET r == UpdateResult(key, random_index, fetch)
    IN  /\ pc = "done"
        /\ key \in DOMAIN sensors
        /\ sensors' = [sensors EXCEPT ![key] = [native_value |-> r.value, attrs |-> r.attrs]]
        /\ escaped' = r.raised
        /\ logged' = r.log
        /\ calls' = [NoCalls EXCEPT !.random = r.called]
        /\ last' = [ op |-> "update", key |-> key, random_index |-> random_index,
                     fetch |-> fetch ]
        /\ fetched' = IF key = SENSOR_RANDOM_RECORD_TYPE /\ r.called = 1 /\ r.raised = "none"
                      THEN fetched \cup {r.attrs} ELSE fetched
        /\ discogs_data' = SnapshotAfterUpdate(key)
        /\ UNCHANGED <<pc, entities, add_entities_calls, setup_in>>

\* random.randint(0, collection.count) in place of randrange.
RandomIndexesInclusive(key) ==
    IF key = SENSOR_RANDOM_RECORD_TYPE /\ discogs_data.folders # <<>>
       /\ discogs_data.folders[1].count > 0
    THEN 0..discogs_data.folders[1].count
    ELSE {-1}

\* The indexes random.randrange(collection.count) can draw, and the ways
\* the fetch of a release can end; -1 and "none" for a poll that does neither.
RandomIndexes(key) ==
    IF key = SENSOR_RANDOM_RECORD_TYPE /\ discogs_data.folders # <<>>
       /\ discogs_data.folders[1].count > 0
    THEN 0..(discogs_data.folders[1].count - 1)
    ELSE {-1}

FetchOutcomes(key) ==
    IF key = SENSOR_RANDOM_RECORD_TYPE /\ discogs_data.folders # <<>>
       /\ discogs_data.folders[1].count > 0
    THEN {"ok", "HTTPError"}
    ELSE {"none"}

Poll ==
    \E key \in DOMAIN sensors :
        \E random_index \in RandomIndexes(key), fetch \in FetchOutcomes(key) :
            Update(key, random_index, fetch)

\* ', '.join(descriptions)
RECURSIVE Join(_)
Join(l) ==
    IF l = <<>> THEN <<>>
    ELSE IF Len(l) = 1 THEN l[1].s
    ELSE l[1].s \o <<",", " ">> \o Join(Tail(l))

NoFormat == PyDict([name |-> Absent, descriptions |-> Absent])
NoLabel == PyDict([name |-> Absent, catno |-> Absent])

SUPPLEMENTARY == {"cat_no", "cover_image", "format", "label", "released"}

\* extra_state_attributes without the tests of lines 310 and 316: the
\* supplementary keys always there, empty when nothing is cached.
ExtraStateAttributesAlways(key) ==
    LET self == sensors[key]
        first_format == Get(self.attrs, "formats", PyList(<<NoFormat>>)).l
        first_label == Get(self.attrs, "labels", PyList(<<NoLabel>>)).l
    IN  PyDict([ identity |-> discogs_data.user,
                 cat_no |-> IF first_label = <<>> THEN PyNone
                            ELSE Get(first_label[1], "catno", PyNone),
                 cover_image |-> Get(self.attrs, "cover_image", PyNone),
                 format |-> IF first_format = <<>> THEN PyNone
                            ELSE Get(first_format[1], "name", PyNone),
                 label |-> IF first_label = <<>> THEN PyNone
                           ELSE Get(first_label[1], "name", PyNone),
                 released |-> Get(self.attrs, "year", PyNone) ])

\* Lines 307-339: extra_state_attributes of the sensor `key`: None, the
\* attributes dict (a key it does not hold mapped to Absent), or the
\* exception the property raises.
ExtraStateAttributes(key) ==
    LET self == sensors[key]
        base == [ identity |-> discogs_data.user, cat_no |-> Absent,
                  cover_image |-> Absent, format |-> Absent, label |-> Absent,
                  released |-> Absent ]
    IN  IF self.native_value = PyNone THEN PyNone
        ELSE IF key = SENSOR_RANDOM_RECORD_TYPE /\ Truthy(self.attrs)
        THEN LET formats == Get(self.attrs, "formats", PyList(<<NoFormat>>))
                 labels == Get(self.attrs, "labels", PyList(<<NoLabel>>))
             IN  IF formats.l = <<>> \/ labels.l = <<>>
                 THEN [t |-> "raise", e |-> "IndexError"]
                 ELSE LET first_format == formats.l[1]
                          format_name == Get(first_format, "name", PyNone)
                          descriptions == Get(first_format, "descriptions", PyList(<<>>))
                          format_str ==
                              IF Truthy(format_name)
                              THEN IF Truthy(descriptions)
                                   THEN PyStr(format_name.s \o <<" ", "(">>
                                              \o Join(descriptions.l) \o <<")">>)
                                   ELSE format_name
                              ELSE PyNone
                          first_label == labels.l[1]
                      IN  PyDict([ base EXCEPT
                                     !.cat_no = Get(first_label, "catno", PyNone),
                                     !.cover_image = Get(self.attrs, "cover_image", PyNone),
                                     !.format = format_str,
                                     !.label = Get(first_label, "name", PyNone),
                                     !.released = Get(self.attrs, "year", PyNone) ])
        ELSE PyDict(base)

----------------------------------------------------------------------------
(* What the remote API and the configuration can give *)

MaxItems == 3       \* releases in a folder the format walk goes over
MaxMonitored == 2   \* entries of monitored_conditions
MaxCount == 2       \* item count of a folder a random record is drawn from
MaxStrLen == 5      \* characters of a value string of the value endpoint

Seqs(S, n) == UNION {[1..k -> S] : k \in 0..n}

FormatDict(name) == PyDict([name |-> PyStr(name), descriptions |-> Absent])
FormatsOnly(formats) == PyDict([EmptyDict.d EXCEPT !.formats = PyList(formats)])

Vinyl == <<"V", "i", "n", "y", "l">>
Cassette == <<"C", "a", "s", "s", "e", "t", "t", "e">>

\* Releases as the format walk sees them: the first format's name in several
\* spellings, another name, no name, an empty format list, and later entries
\* that would count if they were read.
WalkItems ==
    << FormatsOnly(<<FormatDict(Vinyl)>>),
      FormatsOnly(<<FormatDict(<<"v", "i", "n", "y", "l">>), FormatDict(<<"C", "D">>)>>),
      FormatsOnly(<<FormatDict(<<"C", "D">>), FormatDict(Vinyl)>>),
      FormatsOnly(<<FormatDict(Cassette), FormatDict(Vinyl)>>),
      FormatsOnly(<<NoFormat, FormatDict(<<"c", "d">>)>>),
      FormatsOnly(<<>>) >>

\* Releases as the random-record sensor sees them.
FullItem ==
    PyDict([ formats |-> PyList(<< PyDict([ name |-> PyStr(Vinyl),
                                            descriptions |-> PyList(<<PyStr(<<"LP">>),
                                                                      PyStr(<<"Album">>)>>) ]) >>),
             labels |-> PyList(<<PyDict([name |-> PyStr(<<"Label">>),
                                         catno |-> PyStr(<<"CAT 1">>)])>>),
             artists |-> PyList(<<PyDict([name |-> PyStr(<<"Artist">>)])>>),
             title |-> PyStr(<<"Title">>),
             year |-> PyInt(1999),
             cover_image |-> PyStr(<<"http://img">>) ])

BareItem == PyDict([EmptyDict.d EXCEPT !.title = PyStr(<<"Other">>)])

PollItems == <<FullItem, BareItem, EmptyDict, FormatsOnly(<<>>)>>

Folder(count, releases) == [count |-> count, releases |-> releases]

ValueBody(min, median, max, other) ==
    PyDict([minimum |-> min, median |-> median, maximum |-> max, other |-> other])

GoodValue == PyStr(<<"euro", "1", ",", "7", "9", "2", ",", "7", "9", "0", ".", "0", "0">>)
GoodBody == ValueBody(GoodValue, GoodValue, GoodValue, Absent)

FAIL_LINES == {160, 161, 165, 166, 167, 170, 179, 188}

\* The identity and the value call answer, the collection is empty, every
\* sensor is monitored.
BaseInput ==
    [ failLine |-> 0, failKind |-> "none",
      name |-> PyStr(<<"Alice">>), folders |-> <<>>,
      num_collection |-> 0, num_wantlist |-> 1,
      curr_attr |-> PyStr(<<"EUR">>), data |-> Absent,
      value_outcome |-> "ok", body |-> GoodBody,
      walkAfter |-> -1, walkKind |-> "none",
      monitored |-> SENSOR_KEYS ]

\* The ways an exception leaves the outer try.
Failures ==
    {[BaseInput EXCEPT !.failLine = l, !.failKind = k] :
        l \in FAIL_LINES, k \in {"HTTPError", "Exception"}}
    \ {[BaseInput EXCEPT !.failLine = 188, !.failKind = "HTTPError"]}

WalkOutcomes(releases) ==
    {<<-1, "none">>}
    \cup {<<k, e>> : k \in 0..Len(releases), e \in {"HTTPError", "Exception"}}

OneVinyl == <<FormatsOnly(<<FormatDict(Vinyl)>>), FormatsOnly(<<FormatDict(<<"C", "D">>)>>)>>

CurrAttrs == {Absent, PyNone, PyStr(<<>>), PyStr(<<"EUR">>)}
Datas ==
    { Absent, PyNone, PyDict([curr_abbr |-> Absent]),
      PyDict([curr_abbr |-> PyStr(<<>>)]), PyDict([curr_abbr |-> PyStr(<<"GBP">>)]) }

ValueFields == {Absent, PyNone, GoodValue}
Bodies ==
    {ValueBody(a, b, c, o) : a \in ValueFields, b \in ValueFields, c \in ValueFields,
                             o \in {Absent, PyStr(<<"x">>)}}
    \cup {PyNone, PyList(<<>>), PyList(<<GoodValue>>)}

ValueResponses ==
    {<<"ok", b>> : b \in Bodies}
    \cup {<<"RequestException", PyNone>>, <<"JSONDecodeError", PyNone>>}

\* setup_platform with the identity and value phase in all its outcomes, over
\* a short collection.
SetupFetch ==
    /\ pc = "init"
    /\ \E m \in Seqs({SENSOR_COLLECTION_VALUE_MIN_TYPE, SENSOR_VINYL_COUNT_TYPE},
                     MaxMonitored) :
         \/ \E in \in Failures, f \in {<<>>, <<Folder(2, OneVinyl)>>}, n \in {0, 2},
               c \in {PyNone, PyStr(<<"EUR">>)}, w \in {<<-1, "none">>, <<1, "HTTPError">>} :
              Setup([in EXCEPT !.folders = f, !.num_collection = n, !.curr_attr = c,
                               !.walkAfter = w[1], !.walkKind = w[2], !.monitored = m])
         \/ \E c \in CurrAttrs, d \in Datas :
              Setup([BaseInput EXCEPT !.curr_attr = c, !.data = d, !.monitored = m])
         \/ \E v \in ValueResponses, c \in {PyNone, PyStr(<<"EUR">>)} :
              Setup([BaseInput EXCEPT !.value_outcome = v[1], !.body = v[2],
                                      !.curr_attr = c, !.monitored = m,
                                      !.folders = <<Folder(2, OneVinyl)>>,
                                      !.num_collection = 2])

\* First formats Vinyl, CD, vinyl, Cassette.
ExampleItems ==
    << FormatsOnly(<<FormatDict(Vinyl)>>), FormatsOnly(<<FormatDict(<<"C", "D">>)>>),
       FormatsOnly(<<FormatDict(<<"v", "i", "n", "y", "l">>)>>),
       FormatsOnly(<<FormatDict(Cassette)>>) >>

FormatMonitored == <<SENSOR_VINYL_COUNT_TYPE, SENSOR_CD_COUNT_TYPE>>

\* setup_platform with the format walk over every short collection, in all
\* its outcomes, and with the block skipped or without a first folder.
SetupWalk ==
    /\ pc = "init"
    /\ \/ \E q \in Seqs(1..Len(WalkItems), MaxItems) :
            \E w \in WalkOutcomes(q) :
              LET r == [i \in 1..Len(q) |-> WalkItems[q[i]]]
              IN  Setup([BaseInput EXCEPT !.folders = <<Folder(Len(r), r)>>,
                                          !.num_collection = Len(r),
                                          !.walkAfter = w[1], !.walkKind = w[2],
                                          !.monitored = FormatMonitored])
       \/ Setup([BaseInput EXCEPT !.folders = <<Folder(Len(ExampleItems), ExampleItems)>>,
                                   !.num_collection = Len(ExampleItems),
                                   !.monitored = FormatMonitored])
       \/ \E f \in {<<>>, <<Folder(0, <<>>)>>, <<Folder(2, OneVinyl)>>,
                    <<Folder(0, <<>>), Folder(2, OneVinyl)>>},
             n \in {0, 2}, l \in {0, 160, 167} :
              Setup([BaseInput EXCEPT !.folders = f, !.num_collection = n,
                                      !.failLine = l,
                                      !.failKind = IF l = 0 THEN "none" ELSE "Exception",
                                      !.monitored = FormatMonitored])

\* setup_platform over collections a random record is drawn from, with the
\* random-record sensor beside a counter or with every sensor.
SetupPoll ==
    /\ pc = "init"
    /\ \/ \E c \in 0..MaxCount, n \in 0..Len(PollItems) :
              Setup([BaseInput EXCEPT !.folders = <<Folder(c, SubSeq(PollItems, 1, n))>>,
                                      !.num_collection = c,
                                      !.monitored = << SENSOR_RANDOM_RECORD_TYPE,
                                                       SENSOR_COLLECTION_TYPE >>])
       \/ \E x \in { <<GoodBody, 2, 0, "none">>,
                      <<ValueBody(PyNone, PyStr(<<"-">>), Absent, Absent), 2, 0, "none">>,
                      <<GoodBody, 0, 160, "Exception">>,
                      <<GoodBody, 0, 160, "HTTPError">> } :
              Setup([BaseInput EXCEPT !.folders = <<Folder(x[2], SubSeq(PollItems, 1, x[2]))>>,
                                      !.num_collection = x[2],
                                      !.body = x[1], !.failLine = x[3], !.failKind = x[4]])

\* Characters of a value string; "euro" and "emdash" stand for the one
\* character each names.
ValueChars == {"0", "1", "2", ".", ",", "$"}

\* setup_platform with every short value string in the "minimum" field of
\* the value response.
SetupValue ==
    /\ pc = "init"
    /\ \E v \in {PyStr(s) : s \in Seqs(ValueChars, MaxStrLen)}
                \cup {GoodValue, PyStr(<<"emdash">>), PyNone, Absent} :
          Setup([BaseInput EXCEPT !.body = ValueBody(v, GoodValue, GoodValue, Absent),
                                  !.monitored = <<SENSOR_COLLECTION_VALUE_MIN_TYPE>>])

----------------------------------------------------------------------------
(* Specifications *)


NextFetch == SetupFetch \/ Poll
NextWalk == SetupWalk \/ Poll
Next == SetupPoll \/ Poll
NextValue == SetupValue \/ Poll

SpecFetch == Init /\ [][NextFetch]_vars
SpecWalk == Init /\ [][NextWalk]_vars
Spec == Init /\ [][Next]_vars
SpecValue == Init /\ [][NextValue]_vars

----------------------------------------------------------------------------
(* Properties *)

SetupRan == pc # "init"

\* An exception left the outer try of setup_platform.
FetchFailed(kind) == SetupRan /\ setup_in.failLine # 0 /\ setup_in.failKind = kind

Occurrences(seq, x) == Cardinality({i \in DOMAIN seq : seq[i] = x})

\* C1: when the identity fetch (or a later read of the identity) fails with
\* the client library's HTTPError, setup_platform ends with no entity
\* created, add_entities never called, and no exception escaping to the host.
C1_UnauthorizedCreatesNothing ==
    FetchFailed("HTTPError")
        => /\ pc = "aborted"
           /\ add_entities_calls = 0
           /\ entities = <<>>
           /\ DOMAIN sensors = {}
           /\ escaped = "none"

C1_Witness ==
    /\ pc = "aborted"
    /\ setup_in.failLine = 160
    /\ setup_in.failKind = "HTTPError"
    /\ setup_in.monitored # <<>>
    /\ <<"error", 214>> \in logged

\* C2: in every snapshot handed to a sensor the three valuation fields and
\* the currency symbol are present values (never None, never missing); they
\* are "0.00" when the value call fails, and the symbol is "$" when the
\* identity gives no currency.
C2_ValuationAlwaysPresent ==
    pc = "done"
        => /\ \A k \in VALUE_KEYS : discogs_data[k] \notin {PyNone, Absent}
           /\ discogs_data.currency_symbol \notin {PyNone, Absent}
           /\ (setup_in.failLine = 0 /\ setup_in.value_outcome # "ok")
                => \A k \in VALUE_KEYS : discogs_data[k] = ZeroStr
           /\ (setup_in.failLine = 0
               /\ ~(setup_in.curr_attr # Absent /\ Truthy(setup_in.curr_attr))
               /\ ~(setup_in.data.t = "dict" /\ Truthy(setup_in.data.d["curr_abbr"])))
                => discogs_data.currency_symbol = DollarStr

\* C6: when an exception other than the client library's HTTPError is raised
\* in the identity/value phase, setup_platform goes on: the three valuation
\* fields hold "0.00" and add_entities gets exactly one entity for each
\* configured metric identifier.
C6_OtherErrorKeepsDefaults ==
    (SetupRan /\ (\/ FetchFailed("Exception")
                  \/ (setup_in.failLine = 0 /\ setup_in.value_outcome # "ok")))
        => /\ pc = "done"
           /\ \A k \in VALUE_KEYS : discogs_data[k] = ZeroStr
           /\ add_entities_calls = 1
           /\ Range(entities) = Range(setup_in.monitored)
           /\ \A k \in Range(setup_in.monitored) : Occurrences(entities, k) = 1
           /\ DOMAIN sensors = Range(setup_in.monitored)

C6_Witness ==
    /\ pc = "done"
    /\ FetchFailed("Exception")
    /\ setup_in.failLine = 188
    /\ Len(setup_in.monitored) = 2
    /\ setup_in.monitored[1] = setup_in.monitored[2]
    /\ entities = <<SENSOR_COLLECTION_VALUE_MIN_TYPE>>
    /\ sensors[SENSOR_COLLECTION_VALUE_MIN_TYPE].native_value = FloatZero

\* The letters of `name` are those of the lower-case word `word`, in either
\* case.
UpperOf(c) ==
    CASE c = "v" -> "V" [] c = "i" -> "I" [] c = "n" -> "N" [] c = "y" -> "Y"
      [] c = "l" -> "L" [] c = "c" -> "C" [] c = "d" -> "D"

SameWord(name, word) ==
    /\ Len(name) = Len(word)
    /\ \A i \in 1..Len(word) : name[i] = word[i] \/ name[i] = UpperOf(word[i])

\* The first format entry of a release is named `word`, whatever the case.
FirstFormatIs(item, word) ==
    /\ item.d.formats # Absent
    /\ item.d.formats.l # <<>>
    /\ item.d.formats.l[1].d.name # Absent
    /\ SameWord(item.d.formats.l[1].d.name.s, word)

\* How many of the first n items have a first format named `word`.
FirstFormatCount(items, n, word) ==
    Cardinality({i \in 1..n : FirstFormatIs(items[i], word)})

\* The walk over the first folder's releases was started / raised / ended.
WalkRan ==
    /\ pc = "done"
    /\ setup_in.failLine = 0 \/ setup_in.failLine > 166
    /\ setup_in.num_collection > 0
    /\ setup_in.folders # <<>>

WalkRaised == WalkRan /\ setup_in.walkAfter >= 0
WalkEnded == WalkRan /\ setup_in.walkAfter < 0

WalkedItems == setup_in.folders[1].releases

Polled(key, value) == key \in DOMAIN sensors /\ sensors[key].native_value = value

C4_CountsByFirstFormat ==
    WalkEnded
        => /\ discogs_data.vinyl_count
                = FirstFormatCount(WalkedItems, Len(WalkedItems), <<"v", "i", "n", "y", "l">>)
           /\ discogs_data.cd_count
                = FirstFormatCount(WalkedItems, Len(WalkedItems), <<"c", "d">>)
           /\ \A key \in DOMAIN sensors :
                sensors[key].native_value
                    \in {PyNone, PyInt(discogs_data[key])}

C4_Witness ==
    /\ WalkEnded
    /\ WalkedItems = ExampleItems
    /\ discogs_data.vinyl_count = 2
    /\ discogs_data.cd_count = 1
    /\ Polled(SENSOR_VINYL_COUNT_TYPE, PyInt(2))
    /\ Polled(SENSOR_CD_COUNT_TYPE, PyInt(1))

\* The reference cleaning of a value string, in one pass: keep the digits
\* and the '.'.
RefClean(s) == SelectSeq(s, LAMBDA c : c \in DigitChars \/ c = ".")

\* The reference value: the decimal number the cleaned string writes, or
\* None when it is empty or writes none.
RefValue(s) == IF FloatAccepts(RefClean(s)) THEN FloatOf(RefClean(s)) ELSE PyNone

ValuePolled(key) ==
    /\ last.op = "update"
    /\ last.key = key
    /\ key \in VALUE_KEYS
    /\ IsStr(discogs_data[key])

\* C5, its value part: the value of a polled valuation sensor is the
\* reference value of the stored string.
C5_ValueIsReference ==
    \A key \in DOMAIN sensors :
        ValuePolled(key) => sensors[key].native_value = RefValue(discogs_data[key].s)

\* C5, its logging part: a null value comes with an error log record.
C5_NullIsLogged ==
    \A key \in DOMAIN sensors :
        (ValuePolled(key) /\ sensors[key].native_value = PyNone)
            => \E r \in logged : r[1] = "error"

\* C5: a valuation sensor's update gives the reference value of the stored
\* string (commas deleted, then everything but digits and '.', the rest
\* parsed as a decimal number); an empty or unparsable remainder gives null,
\* and that failure is logged as an error.
C5_ValueParse == C5_ValueIsReference /\ C5_NullIsLogged

RandomPolled == last.op = "update" /\ last.key = SENSOR_RANDOM_RECORD_TYPE

\* C7: a poll of the random-record sensor over a first folder of n > 0 items
\* draws an index i with 0 <= i < n and fetches item i, whose data become
\* the cached attributes; with no folder or a first folder of 0 items the
\* value is null and the sensor holds no cached attributes.
C7_RandomRecordDraw ==
    RandomPolled
        => LET self == sensors[SENSOR_RANDOM_RECORD_TYPE]
               folders == discogs_data.folders
           IN  IF folders # <<>> /\ folders[1].count > 0
               THEN /\ last.random_index >= 0
                    /\ last.random_index < folders[1].count
                    /\ calls.random = 1
                    /\ escaped = "none"
                         => /\ self.attrs = folders[1].releases[last.random_index + 1]
                            /\ self.attrs \in fetched
                            /\ self.native_value # PyNone
               ELSE /\ self.native_value = PyNone
                    /\ self.attrs = EmptyDict
                    /\ calls.random = 0
                    /\ escaped = "none"

C7_Witness ==
    /\ RandomPolled
    /\ discogs_data.folders # <<>>
    /\ discogs_data.folders[1].count = 2
    /\ last.random_index = 1
    /\ escaped = "none"
    /\ sensors[SENSOR_RANDOM_RECORD_TYPE].attrs = BareItem
    /\ sensors[SENSOR_RANDOM_RECORD_TYPE].native_value
         = PyStr(<<"Unknown Artist", " - ", "Other">>)

Exposes(key, field) ==
    LET a == ExtraStateAttributes(key) IN a.t = "dict" /\ a.d[field] # Absent

\* C8: a sensor exposes a supplementary field (cat_no, cover_image, format,
\* label, released) only if it is the random-record sensor, its value is not
\* null and its cached attributes are the data of an item it fetched; in
\* every other state and for every other sensor none of the five is exposed.
C8_SupplementaryOnlyAfterFetch ==
    \A key \in DOMAIN sensors :
        \A field \in SUPPLEMENTARY :
            Exposes(key, field)
                => /\ key = SENSOR_RANDOM_RECORD_TYPE
                   /\ sensors[key].native_value # PyNone
                   /\ sensors[key].attrs \in fetched
                   /\ \A other \in SUPPLEMENTARY : Exposes(key, other)

C8_Witness ==
    /\ SENSOR_RANDOM_RECORD_TYPE \in DOMAIN sensors
    /\ SENSOR_COLLECTION_TYPE \in DOMAIN sensors
    /\ sensors[SENSOR_COLLECTION_TYPE].native_value # PyNone
    /\ ExtraStateAttributes(SENSOR_COLLECTION_TYPE).t = "dict"
    /\ sensors[SENSOR_RANDOM_RECORD_TYPE].attrs = FullItem
    /\ Exposes(SENSOR_RANDOM_RECORD_TYPE, "format")
    /\ ExtraStateAttributes(SENSOR_RANDOM_RECORD_TYPE).d.format
         = PyStr(Vinyl \o <<" ", "(", "LP", ",", " ", "Album", ")">>)
    /\ ExtraStateAttributes(SENSOR_RANDOM_RECORD_TYPE).d.cat_no = PyStr(<<"CAT 1">>)

COUNTER_KEYS ==
    { SENSOR_COLLECTION_TYPE, SENSOR_WANTLIST_TYPE, SENSOR_VINYL_COUNT_TYPE,
      SENSOR_CD_COUNT_TYPE }

\* C9: once setup_platform has finished, a poll leaves the snapshot as it
\* is; it changes only the polled sensor's value and, for the random-record
\* sensor, its cached attributes; a counter sensor reports the same value on
\* every poll.
C9_PollsKeepSnapshot ==
    [][ pc = "done"
          => /\ discogs_data' = discogs_data
             /\ DOMAIN sensors' = DOMAIN sensors
             /\ \A key \in DOMAIN sensors :
                  /\ key # last'.key => sensors'[key] = sensors[key]
                  /\ key # SENSOR_RANDOM_RECORD_TYPE
                       => sensors'[key].attrs = sensors[key].attrs
                  /\ (key \in COUNTER_KEYS /\ sensors[key].native_value # PyNone)
                       => sensors'[key].native_value = sensors[key].native_value ]_vars

C9_Witness ==
    /\ pc = "done"
    /\ discogs_data.collection_count = 2
    /\ entities = SENSOR_KEYS
    /\ \A key \in DOMAIN sensors : sensors[key].native_value # PyNone
    /\ sensors[SENSOR_RANDOM_RECORD_TYPE].attrs = FullItem
    /\ sensors[SENSOR_COLLECTION_TYPE].native_value = PyInt(2)
    /\ last.op = "update"
    /\ last.key = SENSOR_RANDOM_RECORD_TYPE
    /\ escaped = "HTTPError"

\* C10: every remote call is made at most once per setup or poll cycle, and
\* a failing call is resolved within the cycle to a default or to null: a
\* poll whose random-record fetch fails ends with the sensor value null and
\* nothing escaping to the host.
C10_FailuresResolvedOnce ==
    /\ \A c \in DOMAIN calls : calls[c] <= 1
    /\ (RandomPolled /\ last.fetch = "HTTPError")
         => /\ escaped = "none"
            /\ sensors[SENSOR_RANDOM_RECORD_TYPE].native_value = PyNone

====
